---- MODULE Spec2Model ----
(***************************************************************************)
(* Model of src/methods.py (MarketKing): the moving-average crossover      *)
(* signal pipeline (create_ma, find_sell_signals, find_buy_signals,        *)
(* form_signals, apply_strategy) and the strategy simulator (validate).    *)
(*                                                                         *)
(* Two specifications share the module:                                    *)
(*   SpecValidate  - validate() run row by row on a decision frame         *)
(*   SpecPipeline  - create_ma -> form_signals -> apply_strategy           *)
(***************************************************************************)
EXTENDS Integers, Sequences, FiniteSets, TLC

VARIABLES
    \* ---- validate(stocks, start_money, start_eq, verbose) ----
    stocks,        \* the decision frame: rows [price, buy_signal, sell_signal]
    start_money,   \* argument
    start_eq,      \* argument
    money,         \* local: cash
    eq,            \* local: position
    money_hist,    \* local: wealth history
    last_price,    \* local: <<>> while unbound, <<p>> once assigned
    i,             \* index of the row the for loop is at (1-based)
    pc,            \* position in validate: "for", "done" or "raised"
    narrated,      \* the calls of _print so far, each with its priority
    ret,           \* <<>> until validate returns, then <<[money_hist, money, eq]>>
    error,         \* "" or the name of the exception validate raised
    \* ---- create_ma / form_signals / apply_strategy ----
    prices,        \* the price series
    ma_steps,      \* the list of moving-average windows
    data_ma,       \* create_ma's table: sequence of columns [name, vals]
    sell_signals,  \* form_signals' tables: sequences of columns [name, vals]
    buy_signals,
    chosen_sell_signals,   \* apply_strategy's arguments (column names)
    chosen_buy_signals,
    result,        \* apply_strategy's frame: rows [price, buy_signal, sell_signal]
    cross,         \* one call of find_sell_signals / find_buy_signals and its results
    stage          \* position in the pipeline

vvars == <<stocks, start_money, start_eq, money, eq, money_hist,
           last_price, i, pc, narrated, ret, error>>

pvars == <<prices, ma_steps, data_ma, sell_signals, buy_signals,
           chosen_sell_signals, chosen_buy_signals, result, cross, stage>>

vars == <<vvars, pvars>>

(***************************************************************************)
(* Bounds                                                                  *)
(***************************************************************************)
\* significand width of the binary floating-point numbers (float64 has 53)
MantBits == 3
\* rows of the decision frame given to validate
MaxRows == 2
\* largest price in a frame given to validate
MaxPrice == 3
\* largest start_money
MaxMoney == 14
\* largest start_eq
MaxEq == 1
\* longest price series given to create_ma
MaxLen == 5
\* longest pair of series given to find_sell_signals / find_buy_signals
MaxCross == 3

\* the prices a series given to create_ma is made of
PriceLevels == {1, 2, 3}
\* the windows ma_steps is made of; a list holds at most that many
Windows == {1, 2, 3}

\* np.NaN in a signal column; prices are positive, so it is no price
NaN == -1

isnan(x) == x = NaN

(***************************************************************************)
(* Binary floating point, round to nearest, ties to even, with a           *)
(* significand of MantBits bits and no exponent limit.  money, eq and the  *)
(* prices of validate are floats whose values are integers; the only       *)
(* fractional intermediate, money / price, is consumed by np.floor.        *)
(***************************************************************************)
RECURSIVE Pow2(_)
Pow2(n) == IF n = 0 THEN 1 ELSE 2 * Pow2(n - 1)

\* a / b rounded to the nearest integer, ties to the even one (a >= 0, b > 0)
RoundQuot(a, b) ==
    LET lo == a \div b
        rem == a - lo * b
    IN  IF 2 * rem < b THEN lo
        ELSE IF 2 * rem > b THEN lo + 1
        ELSE IF lo % 2 = 0 THEN lo ELSE lo + 1

\* the spacing of the floats around a / b when a / b >= 2^(MantBits-1)
RECURSIVE Quantum(_, _, _)
Quantum(a, b, q) ==
    IF a < b * Pow2(MantBits) * q THEN q ELSE Quantum(a, b, 2 * q)

\* the float nearest to the integer n
RoundInt(n) ==
    LET a == IF n < 0 THEN -n ELSE n
        q == Quantum(a, 1, 1)
        r == RoundQuot(a, q) * q
    IN  IF n < 0 THEN -r ELSE r

fadd(x, y) == RoundInt(x + y)

fsub(x, y) == RoundInt(x - y)

fmul(x, y) == RoundInt(x * y)

\* the least j with x * 2^j / y >= 2^(MantBits-1)   (x > 0, y > 0)
RECURSIVE NormShift(_, _, _)
NormShift(x, y, j) ==
    IF x * Pow2(j) >= y * Pow2(MantBits - 1) THEN j ELSE NormShift(x, y, j + 1)

\* np.floor(x / y): the quotient is rounded to a float, then floored
floor_fdiv(x, y) ==
    IF x >= y * Pow2(MantBits - 1)
    THEN LET q == Quantum(x, y, 1) IN RoundQuot(x, y * q) * q
    ELSE LET j == NormShift(x, y, 0) IN RoundQuot(x * Pow2(j), y) \div Pow2(j)

\* the integer-valued floats in 0..n
Floats(n) == {x \in 0..n : RoundInt(x) = x}

(***************************************************************************)
(* validate                                                                *)
(***************************************************************************)
\* a row of the decision frame: a signal is NaN or, when present, the price
Row(p, b, s) ==
    [price |-> p,
     buy_signal |-> IF b THEN p ELSE NaN,
     sell_signal |-> IF s THEN p ELSE NaN]

\* the decision frames of at most n rows, with positive prices
RECURSIVE Frames(_)
Frames(n) ==
    IF n = 0 THEN {<<>>}
    ELSE LET shorter == Frames(n - 1)
         IN  shorter \cup
             {Append(f, Row(p, b, s)) :
                 f \in {g \in shorter : Len(g) = n - 1},
                 p \in Floats(MaxPrice) \ {0},
                 b \in BOOLEAN, s \in BOOLEAN}

\* _print(txt, priority), called with the text's parts
_print(out, kind, row, qty, price, cash, priority) ==
    Append(out, [kind |-> kind, row |-> row, qty |-> qty, price |-> price,
                 money |-> cash, priority |-> priority])

\* what _print writes when validate runs with verbose = verb
Printed(verb) == SelectSeq(narrated, LAMBDA e : e.priority < verb)

\* line 156: available_eq = np.floor(money / price)
available_eq(cash, price) == floor_fdiv(cash, price)

\* lines 153-154: the buy branch is taken
buy_taken(r, cash) == ~isnan(r.buy_signal) /\ cash > 0

sell_taken_any_row(r, position) == position > 0

\* lines 162-163: the sell branch is taken
sell_taken(r, position) == ~isnan(r.sell_signal) /\ position > 0

liquidate_nothing(cash, price, position) == cash

\* line 176: money += last_price * eq
liquidate(cash, price, position) == fadd(cash, fmul(price, position))

PipelineIdle ==
    /\ prices = <<>>
    /\ ma_steps = <<>>
    /\ data_ma = <<>>
    /\ sell_signals = <<>>
    /\ buy_signals = <<>>
    /\ chosen_sell_signals = ""
    /\ chosen_buy_signals = ""
    /\ result = <<>>
    /\ cross = <<>>
    /\ stage = "idle"

\* lines 144-148: validate has bound its locals and reaches the for loop
InitValidate ==
    /\ stocks \in Frames(MaxRows)
    /\ start_money \in Floats(MaxMoney)
    /\ start_eq \in Floats(MaxEq)
    /\ money_hist = <<>>
    /\ money = start_money
    /\ eq = start_eq
    /\ narrated = _print(<<>>, "start", 0, 0, 0, start_money, 0)
    /\ last_price = <<>>
    /\ i = 1
    /\ pc = "for"
    /\ ret = <<>>
    /\ error = ""
    /\ PipelineIdle

\* lines 150-173: one pass of the for loop, on row i
Step ==
    /\ pc = "for"
    /\ i <= Len(stocks)
    /\ LET r == stocks[i]
           price == r.price
           \* lines 153-161
           bought == buy_taken(r, money)
           units == available_eq(money, price)
           money1 == IF bought THEN fsub(money, fmul(units, price)) ELSE money
           eq1 == IF bought THEN fadd(eq, units) ELSE eq
           out1 == IF bought
                   THEN _print(narrated, "buy", i, units, price, money1, 1)
                   ELSE narrated
           \* lines 162-168
           sold == sell_taken(r, eq1)
           sell_eq == eq1
           money2 == IF sold THEN fadd(money1, fmul(sell_eq, price)) ELSE money1
           eq2 == IF sold THEN 0 ELSE eq1
           out2 == IF sold
                   THEN _print(out1, "sell", i, sell_eq, price, money2, 1)
                   ELSE out1
       IN  /\ money' = money2
           /\ eq' = eq2
           /\ narrated' = out2
           \* lines 170-173
           /\ money_hist' = Append(money_hist, money2)
           /\ last_price' = <<price>>
    /\ i' = i + 1
    /\ UNCHANGED <<stocks, start_money, start_eq, pc, ret, error>>
    /\ UNCHANGED pvars

\* lines 176-181, after the loop; reading last_price while unbound raises
Liquidate ==
    /\ pc = "for"
    /\ i > Len(stocks)
    /\ IF last_price = <<>>
       THEN /\ error' = "UnboundLocalError"
            /\ pc' = "raised"
            /\ UNCHANGED <<money, eq, narrated, ret>>
       ELSE LET cash == liquidate(money, last_price[1], eq)
            IN  /\ money' = cash
                /\ eq' = 0
                /\ narrated' = _print(narrated, "end", 0, 0, 0, cash, 0)
                /\ ret' = <<[money_hist |-> money_hist, money |-> cash, eq |-> 0]>>
                /\ pc' = "done"
                /\ UNCHANGED error
    /\ UNCHANGED <<stocks, start_money, start_eq, money_hist, last_price, i>>
    /\ UNCHANGED pvars

NextValidate == Step \/ Liquidate

SpecValidate == InitValidate /\ [][NextValidate]_vars

(***************************************************************************)
(* The signal pipeline.  A table (DataFrame) is a sequence of columns      *)
(* [name, vals]; assigning a column whose name exists replaces its values  *)
(* in place, any other name is appended.  A moving average is kept exactly, *)
(* in units of 1 / Scale; NaN marks the entries with no value.             *)
(***************************************************************************)
RECURSIVE Fact(_)
Fact(n) == IF n = 0 THEN 1 ELSE n * Fact(n - 1)

\* every window divides Scale, so a mean times Scale is an integer
Scale == Fact(CHOOSE w \in Windows : \A v \in Windows : v <= w)

RECURSIVE SeqsUpTo(_, _)
SeqsUpTo(S, n) ==
    IF n = 0 THEN {<<>>}
    ELSE LET shorter == SeqsUpTo(S, n - 1)
         IN  shorter \cup
             {Append(q, x) : q \in {g \in shorter : Len(g) = n - 1}, x \in S}

HasCol(df, name) == \E k \in 1..Len(df) : df[k].name = name

Col(df, name) == df[CHOOSE k \in 1..Len(df) : df[k].name = name].vals

\* df[name] = vals
SetCol(df, name, vals) ==
    IF HasCol(df, name)
    THEN [k \in 1..Len(df) |->
             IF df[k].name = name THEN [name |-> name, vals |-> vals] ELSE df[k]]
    ELSE Append(df, [name |-> name, vals |-> vals])

RECURSIVE SumRange(_, _, _)
SumRange(s, lo, hi) == IF lo > hi THEN 0 ELSE s[lo] + SumRange(s, lo + 1, hi)

\* line 69: prices.rolling(ma_step).mean()
rolling_mean(series, ma_step) ==
    [t \in 1..Len(series) |->
        IF t < ma_step THEN NaN
        ELSE (SumRange(series, t - ma_step + 1, t) * Scale) \div ma_step]

\* lines 68-70: the loop over ma_steps, from its k-th element on
RECURSIVE create_ma_loop(_, _, _, _)
create_ma_loop(tbl, series, steps, k) ==
    IF k > Len(steps) THEN tbl
    ELSE create_ma_loop(
             SetCol(tbl, "ma_" \o ToString(steps[k]), rolling_mean(series, steps[k])),
             series, steps, k + 1)

\* lines 59-71
create_ma(series, steps) ==
    create_ma_loop(SetCol(<<>>, "price", series), series, steps, 1)

\* Series.shift(n): entry t takes the value of entry t - n, NaN where none
shift(s, n) ==
    [t \in 1..Len(s) |-> IF t - n >= 1 /\ t - n <= Len(s) THEN s[t - n] ELSE NaN]

\* a > b on two entries: False when either is NaN
gt(a, b) == ~isnan(a) /\ ~isnan(b) /\ a > b

\* a < b on two entries: False when either is NaN
lt(a, b) == ~isnan(a) /\ ~isnan(b) /\ a < b

\* lines 74-85
find_sell_signals(short_ma, long_ma) ==
    LET short_higher == [t \in 1..Len(short_ma) |->
                            gt(shift(short_ma, -1)[t], shift(long_ma, -1)[t])]
        short_lower == [t \in 1..Len(short_ma) |->
                            lt(shift(short_ma, 1)[t], shift(long_ma, 1)[t])]
    IN  [t \in 1..Len(short_ma) |-> short_higher[t] /\ short_lower[t]]

find_buy_signals_as_sell(short_ma, long_ma) == find_sell_signals(short_ma, long_ma)

\* lines 88-99
find_buy_signals(short_ma, long_ma) ==
    LET short_lower == [t \in 1..Len(short_ma) |->
                            lt(shift(short_ma, -1)[t], shift(long_ma, -1)[t])]
        short_higher == [t \in 1..Len(short_ma) |->
                            gt(shift(short_ma, 1)[t], shift(long_ma, 1)[t])]
    IN  [t \in 1..Len(short_ma) |-> short_higher[t] /\ short_lower[t]]

\* .astype(int) on a column of booleans
astype_int(col) == [t \in 1..Len(col) |-> IF col[t] THEN 1 ELSE 0]

\* lines 112, 115: the pairs (i, j) of the two for loops in their order, as
\* positions counted from 1: i runs over 2..n, j over i..n
RECURSIVE column_pairs(_, _, _)
column_pairs(ci, cj, n) ==
    IF ci > n THEN <<>>
    ELSE IF cj > n THEN column_pairs(ci + 1, ci + 1, n)
    ELSE <<<<ci, cj>>>> \o column_pairs(ci, cj + 1, n)

\* lines 119, 122
signal_name(short_ma_name, long_ma_name, suffix) ==
    short_ma_name \o "_" \o long_ma_name \o suffix

\* lines 112-126 for the sell table (sell = TRUE) or the buy table
RECURSIVE form_table(_, _, _, _, _)
form_table(tbl, frame, pairs, k, sell) ==
    IF k > Len(pairs) THEN tbl
    ELSE LET short == frame[pairs[k][1]]
             long == frame[pairs[k][2]]
             name == signal_name(short.name, long.name,
                         IF sell THEN "_sell_signal" ELSE "_buy_signal")
             vals == IF sell THEN find_sell_signals(short.vals, long.vals)
                     ELSE find_buy_signals(short.vals, long.vals)
         IN  form_table(SetCol(tbl, name, astype_int(vals)), frame, pairs, k + 1, sell)

\* lines 102-128: <<sell_signals, buy_signals>>
form_signals(frame) ==
    LET pairs == column_pairs(2, 2, Len(frame))
    IN  <<form_table(<<>>, frame, pairs, 1, TRUE),
          form_table(<<>>, frame, pairs, 1, FALSE)>>

apply_strategy_sell_for_buy(data, sells, buys, chosen_sell, chosen_buy) ==
    LET price == Col(data, "price")
    IN  [t \in 1..Len(price) |->
            [price |-> price[t],
             sell_signal |-> IF Col(sells, chosen_sell)[t] > 0 THEN price[t] ELSE NaN,
             buy_signal |-> IF Col(sells, chosen_sell)[t] > 0 THEN price[t] ELSE NaN]]

\* lines 184-206
apply_strategy(data, sells, buys, chosen_sell, chosen_buy) ==
    LET price == Col(data, "price")
    IN  [t \in 1..Len(price) |->
            [price |-> price[t],
             sell_signal |-> IF Col(sells, chosen_sell)[t] > 0 THEN price[t] ELSE NaN,
             buy_signal |-> IF Col(buys, chosen_buy)[t] > 0 THEN price[t] ELSE NaN]]

ValidateIdle ==
    /\ stocks = <<>>
    /\ start_money = 0
    /\ start_eq = 0
    /\ money = 0
    /\ eq = 0
    /\ money_hist = <<>>
    /\ last_price = <<>>
    /\ i = 1
    /\ pc = "idle"
    /\ narrated = <<>>
    /\ ret = <<>>
    /\ error = ""

InitPipeline == PipelineIdle /\ ValidateIdle

\* create_ma(prices, ma_steps) on a series of positive prices
CreateMa ==
    /\ stage = "idle"
    /\ \E series \in SeqsUpTo(PriceLevels, MaxLen),
          steps \in SeqsUpTo(Windows, Cardinality(Windows)) :
           /\ prices' = series
           /\ ma_steps' = steps
           /\ data_ma' = create_ma(series, steps)
    /\ stage' = "ma"
    /\ UNCHANGED <<sell_signals, buy_signals, chosen_sell_signals,
                   chosen_buy_signals, result, cross>>
    /\ UNCHANGED vvars

\* sell_signals, buy_signals = form_signals(data_ma)
FormSignals ==
    /\ stage = "ma"
    /\ sell_signals' = form_signals(data_ma)[1]
    /\ buy_signals' = form_signals(data_ma)[2]
    /\ stage' = "signals"
    /\ UNCHANGED <<prices, ma_steps, data_ma, chosen_sell_signals,
                   chosen_buy_signals, result, cross>>
    /\ UNCHANGED vvars

\* apply_strategy(data_ma, sell_signals, buy_signals, s, b), the names being
\* columns of the two signal tables
ApplyStrategy ==
    /\ stage = "signals"
    /\ \E s \in {sell_signals[k].name : k \in 1..Len(sell_signals)},
          b \in {buy_signals[k].name : k \in 1..Len(buy_signals)} :
           /\ chosen_sell_signals' = s
           /\ chosen_buy_signals' = b
           /\ result' = apply_strategy(data_ma, sell_signals, buy_signals, s, b)
    /\ stage' = "applied"
    /\ UNCHANGED <<prices, ma_steps, data_ma, sell_signals, buy_signals, cross>>
    /\ UNCHANGED vvars

\* find_sell_signals and find_buy_signals on two aligned series with holes
FindSignals ==
    /\ stage = "idle"
    /\ \E short_ma \in SeqsUpTo({NaN} \cup PriceLevels, MaxCross),
          long_ma \in SeqsUpTo({NaN} \cup PriceLevels, MaxCross) :
           /\ Len(short_ma) = Len(long_ma)
           /\ cross' = <<[short_ma |-> short_ma,
                          long_ma |-> long_ma,
                          sell |-> find_sell_signals(short_ma, long_ma),
                          buy |-> find_buy_signals(short_ma, long_ma)]>>
    /\ stage' = "crossed"
    /\ UNCHANGED <<prices, ma_steps, data_ma, sell_signals, buy_signals,
                   chosen_sell_signals, chosen_buy_signals, result>>
    /\ UNCHANGED vvars

NextPipeline == CreateMa \/ FormSignals \/ ApplyStrategy \/ FindSignals

SpecPipeline == InitPipeline /\ [][NextPipeline]_vars

(***************************************************************************)
(* Properties of the signal pipeline (checked under SpecPipeline)          *)
(***************************************************************************)
\* the signal column form_signals names after columns ci and cj of data_ma
SignalOf(tbl, ci, cj, suffix) ==
    Col(tbl, signal_name(data_ma[ci].name, data_ma[cj].name, suffix))

Formed == stage \in {"signals", "applied"}

\* C3: find_buy_signals and find_sell_signals of the same two series are
\* never both true at an index, and in form_signals' tables the buy and the
\* sell column of the same pair are never both 1 at an index.
C3_BuySellExclusive ==
    /\ cross # <<>> =>
          \A t \in 1..Len(cross[1].sell) : ~(cross[1].sell[t] /\ cross[1].buy[t])
    /\ Formed =>
          \A ci \in 2..Len(data_ma) : \A cj \in ci..Len(data_ma) :
              \A t \in 1..Len(prices) :
                  ~(/\ SignalOf(sell_signals, ci, cj, "_sell_signal")[t] = 1
                    /\ SignalOf(buy_signals, ci, cj, "_buy_signal")[t] = 1)

\* tables in which one pair has a sell signal at one index and a buy signal
\* at another
C3_Witness ==
    /\ Formed
    /\ \E ci \in 2..Len(data_ma) : \E cj \in ci..Len(data_ma) :
           /\ \E t \in 1..Len(prices) :
                  SignalOf(sell_signals, ci, cj, "_sell_signal")[t] = 1
           /\ \E t \in 1..Len(prices) :
                  SignalOf(buy_signals, ci, cj, "_buy_signal")[t] = 1

\* short is below (above) long at index u, both being defined there
Below(short_ma, long_ma, u) ==
    u \in 1..Len(short_ma) /\ lt(short_ma[u], long_ma[u])

Above(short_ma, long_ma, u) ==
    u \in 1..Len(short_ma) /\ gt(short_ma[u], long_ma[u])

\* C4: a buy signal is raised at t exactly when short goes from below long
\* at t-1 to above it at t+1, a sell signal exactly when it goes from above
\* at t-1 to below at t+1; undefined neighbours give no signal.
C4_SignalsFollowCrossingDirection ==
    cross # <<>> =>
        LET c == cross[1]
        IN  \A t \in 1..Len(c.short_ma) :
                /\ c.buy[t] <=> (/\ Below(c.short_ma, c.long_ma, t - 1)
                                 /\ Above(c.short_ma, c.long_ma, t + 1))
                /\ c.sell[t] <=> (/\ Above(c.short_ma, c.long_ma, t - 1)
                                  /\ Below(c.short_ma, c.long_ma, t + 1))

\* the names of a table's columns
Names(tbl) == {tbl[k].name : k \in 1..Len(tbl)}

\* the names C5 expects: one per pair of moving-average columns ci < cj
StrictPairNames(suffix) ==
    {signal_name(data_ma[q[1]].name, data_ma[q[2]].name, suffix) :
        q \in {r \in (2..Len(data_ma)) \X (2..Len(data_ma)) : r[1] < r[2]}}

\* C5: form_signals emits exactly one sell and one buy column per pair of
\* moving-average columns at positions i < j, named after the two columns;
\* no column is paired with itself and the price column is not paired.
C5_OneColumnPerStrictPair ==
    Formed =>
        /\ Names(sell_signals) = StrictPairNames("_sell_signal")
        /\ Names(buy_signals) = StrictPairNames("_buy_signal")
        /\ Len(sell_signals) = Cardinality(Names(sell_signals))
        /\ Len(buy_signals) = Cardinality(Names(buy_signals))

StrictlyIncreasing(steps) ==
    \A k \in 1..(Len(steps) - 1) : steps[k] < steps[k + 1]

\* C8: with a window list that is not strictly increasing no signal column is
\* generated and no signal table is returned.
C8_UnorderedWindowsRejected ==
    ~StrictlyIncreasing(ma_steps) =>
        (~Formed /\ sell_signals = <<>> /\ buy_signals = <<>>)

BothPresent(t) ==
    ~isnan(result[t].buy_signal) /\ ~isnan(result[t].sell_signal)

\* the two chosen names are the sell and the buy column of one pair
SamePair ==
    \E ci \in 2..Len(data_ma) : \E cj \in ci..Len(data_ma) :
        /\ chosen_sell_signals =
               signal_name(data_ma[ci].name, data_ma[cj].name, "_sell_signal")
        /\ chosen_buy_signals =
               signal_name(data_ma[ci].name, data_ma[cj].name, "_buy_signal")

\* C6 as stated: whatever sell and buy columns are chosen, no index of the
\* decision series has both signals present.
C6_AtMostOneSignalPerIndex ==
    stage = "applied" => \A t \in 1..Len(result) : ~BothPresent(t)

\* C6 as amended: no index has both signals present when the chosen sell and
\* buy columns belong to the same pair of moving averages.
C6_AtMostOneSignalForSamePair ==
    (stage = "applied" /\ SamePair) => \A t \in 1..Len(result) : ~BothPresent(t)

\* a decision series of one pair with a sell at one index and a buy at another
C6_Witness ==
    /\ stage = "applied"
    /\ SamePair
    /\ \E t \in 1..Len(result) : ~isnan(result[t].sell_signal)
    /\ \E t \in 1..Len(result) : ~isnan(result[t].buy_signal)

(***************************************************************************)
(* Properties of validate (checked under SpecValidate)                     *)
(***************************************************************************)
\* _print was called for a trade of this kind on row k
Narrates(kind, k) ==
    \E n \in 1..Len(narrated) : narrated[n].kind = kind /\ narrated[n].row = k

\* the buy of row k raised the position and lowered the cash
BuyCarriedOut(k) ==
    \E n \in 1..Len(narrated) :
        /\ narrated[n].kind = "buy"
        /\ narrated[n].row = k
        /\ narrated[n].qty > 0

\* the sell of row k set the position to 0 and raised the cash
SellCarriedOut(k) == Narrates("sell", k)

BothSignals(k) ==
    ~isnan(stocks[k].buy_signal) /\ ~isnan(stocks[k].sell_signal)

\* the cash validate holds when it reaches row k
CashBefore(k) == IF k = 1 THEN start_money ELSE money_hist[k - 1]

\* C1: with positive prices, start_money >= 0 and start_eq >= 0, cash >= 0
\* and position >= 0 hold after every pass of the loop, and the position
\* validate returns is 0.
C1_CashAndPositionNeverNegative ==
    /\ money >= 0
    /\ eq >= 0
    /\ pc = "done" => ret[1].eq = 0

\* C2 as stated: on no row are both the buy and the sell carried out, the
\* rows with both signals present included.
C2_AtMostOneTradePerStep ==
    \A k \in 1..Len(stocks) : ~(BuyCarriedOut(k) /\ SellCarriedOut(k))

\* C2 as amended: both branches run on a row only when both signals are
\* present on it, and on a processed row with both signals present and cash
\* of at least the price, the buy and then the sell are both carried out.
C2_BothTradesOnlyWhenBothSignals ==
    \A k \in 1..Len(stocks) :
        /\ (Narrates("buy", k) /\ Narrates("sell", k)) => BothSignals(k)
        /\ (k <= Len(money_hist) /\ BothSignals(k) /\ CashBefore(k) >= stocks[k].price)
               => (BuyCarriedOut(k) /\ SellCarriedOut(k))

\* a two-row run: one row with a single signal and a single trade, one row
\* with both signals where units were bought and sold in the same pass
C2_Witness ==
    /\ Len(money_hist) = 2
    /\ \E k \in 1..2 : BothSignals(k) /\ BuyCarriedOut(k) /\ SellCarriedOut(k)
    /\ \E k \in 1..2 :
           /\ isnan(stocks[k].sell_signal)
           /\ BuyCarriedOut(k)
           /\ ~SellCarriedOut(k)

\* C7: on a frame of zero rows validate raises DegenerateInput, before the
\* liquidation step reads last_price.
C7_EmptyFrameFailsFast ==
    (Len(stocks) = 0 /\ pc = "raised") => error = "DegenerateInput"

NoSignals ==
    \A k \in 1..Len(stocks) :
        isnan(stocks[k].buy_signal) /\ isnan(stocks[k].sell_signal)

C9_History ==
    /\ Len(money_hist) = i - 1
    /\ (pc = "for" /\ i > 1) => money_hist[i - 1] = money
    /\ pc = "done" => Len(ret[1].money_hist) = Len(stocks)
    /\ NoSignals =>
          /\ \A k \in 1..Len(money_hist) : money_hist[k] = start_money
          /\ pc = "done" =>
                ret[1].money =
                    fadd(start_money, fmul(start_eq, stocks[Len(stocks)].price))

C9_Liquidation ==
    (pc = "for" /\ pc' = "done") =>
        /\ ret'[1].money_hist = money_hist
        /\ ret'[1].money =
              fadd(money_hist[Len(stocks)], fmul(stocks[Len(stocks)].price, eq))

\* C9: on a non-empty frame the wealth history has one entry per row, entry k
\* is the cash held after row k's trades, and the final cash is the last
\* entry plus the last row's price times the position held after the last
\* row; with no signals every entry is start_money and the final cash is
\* start_money + start_eq * last price.
C9_WealthHistoryAndFinalCash == []C9_History /\ [][C9_Liquidation]_vars

\* a two-row run that traded and whose liquidation added to the cash
C9_Witness ==
    /\ pc = "done"
    /\ Len(ret[1].money_hist) = 2
    /\ ret[1].money_hist[1] # ret[1].money_hist[2]
    /\ ret[1].money # ret[1].money_hist[2]

C10_Conserved ==
    (pc = "for" /\ i <= Len(stocks)) =>
        LET p == stocks[i].price
        IN  fadd(money', fmul(eq', p)) = fadd(money, fmul(eq, p))

C10_CashAfterBuy ==
    \A n \in 1..Len(narrated) :
        narrated[n].kind = "buy" =>
            (0 <= narrated[n].money /\ narrated[n].money < narrated[n].price)

\* C10: a pass of the loop at price p leaves cash + position * p unchanged,
\* and after an executed buy the remaining cash satisfies 0 <= cash < p.
C10_TradesConserveValue == []C10_CashAfterBuy /\ [][C10_Conserved]_vars

====
